---- MODULE Spec2Model ----
(***************************************************************************)
(* Rate limiting of the DevSync API (backend/core/rate_limiting.py): the   *)
(* three limiter algorithms over the shared cache, the identifier          *)
(* strategy, and the enforcement wrappers.                                 *)
(* The counting decorator of backend/core/throttling.py is modelled at     *)
(* the end of the system part, one step for each of its cache operations.  *)
(*                                                                         *)
(* Time is counted in ticks, TicksPerSecond ticks to the second, so that   *)
(* the truncations int(...) of the source are visible.  A token count is   *)
(* kept exactly, as a numerator over Den(lim) = interval * TicksPerSecond: *)
(* one tick refills rate/Den tokens, i.e. adds `rate` to the numerator.    *)
(* Strings are sequences of segments, the separator ":" being a segment.   *)
(***************************************************************************)
EXTENDS Integers, Sequences, FiniteSets, TLC

VARIABLES
    limiters,   \* the limiter objects constructed for this run
    now,        \* time.time(), in ticks
    cache,      \* django.core.cache: key -> stored entry
    ids,        \* the identifiers that are checked in this run
    watched,    \* the identifier whose calls are remembered below
    last,       \* per algorithm: the latest call for the watched identifier
    streak,     \* per algorithm: its immediate calls since a fresh one
    okRun,      \* per algorithm: its allowed calls at the present instant
    fullAt,     \* per algorithm: the instant of its last full burst, or -1
    wrapper,    \* the enforcement wrapper of this run, if it has one
    client,     \* the client whose requests the wrapper gets
    served,     \* what the wrapper did with the latest request
    endpoints,  \* the wrappers deployed side by side, if the run has several
    visitors,   \* the clients whose requests those wrappers get
    seen,       \* the rate checks made through those wrappers so far
    budget,     \* the requests the run may still make; Unbounded: any number
    flight,     \* per worker: its is_allowed call between cache.get and cache.set
    raced,      \* per algorithm: the calls its workers finished, and how
    admits,     \* the clock reads of the latest allowed fixed-window calls
    drawn,      \* the watched bucket as its latest allowed call left it
    pending,    \* per worker: its request inside core.throttling.rate_limit
    outcome,    \* what that decorator did with the latest request it finished
    tally       \* what its requests have done to the client's counter and block

vars == <<limiters, now, cache, ids, watched, last, streak, okRun, fullAt,
          wrapper, client, served, endpoints, visitors, seen, budget,
          flight, raced, admits, drawn, pending, outcome, tally>>

\* ------------------------------------------------------------- bounds
TicksPerSecond == 2
MaxRate == 2
MaxInterval == 2
MaxBurst == 2
MaxNow == 5
MaxSkew == 1
MaxRequests == 2
MaxWorkers == 2
MaxCalls == 4
MaxBlock == 2

\* ---------------------------------------------------------- constants
\* TokenBucket.__init__: burst: int = 10.
DefaultBurst == 10

\* ------------------------------------------------------------ helpers
Min(a, b) == IF a <= b THEN a ELSE b

\* Python's int() of the rational n/d (d > 0): truncation toward zero.
Trunc(n, d) == IF n >= 0 THEN n \div d ELSE -((-n) \div d)

Colon == <<":">>

Algorithms == {"token_bucket", "sliding_window", "fixed_window"}

Identifiers == { <<"ip", ":", "1.2.3.4">>, <<"ip", ":", "1.2.3.4", ":", "1">> }

\* Ticks in one interval of a limiter: the denominator of its token counts.
Den(lim) == lim.interval * TicksPerSecond

\* ------------------------------------------------------------- cache
NoRequests == << >>

TokenEntry(tokens, last_update, expires) ==
    [kind |-> "dict", tokens |-> tokens, last_update |-> last_update,
     requests |-> NoRequests, count |-> 0, expires |-> expires]

ListEntry(requests, expires) ==
    [kind |-> "list", tokens |-> 0, last_update |-> 0,
     requests |-> requests, count |-> 0, expires |-> expires]

CountEntry(count, expires) ==
    [kind |-> "int", tokens |-> 0, last_update |-> 0,
     requests |-> NoRequests, count |-> count, expires |-> expires]

\* cache.get finds a key that was set and whose timeout has not run out.
CacheHas(c, key, t) == key \in DOMAIN c /\ c[key].expires > t

\* cache.set(key, entry, timeout): entry carries its expiry time.
CacheSet(c, key, entry) ==
    [k \in (DOMAIN c) \cup {key} |-> IF k = key THEN entry ELSE c[k]]

\* The entries whose timeout has run out at time t are gone.
CacheExpire(c, t) ==
    [k \in {x \in DOMAIN c : c[x].expires > t} |-> c[k]]

\* --------------------------------------------------------- decisions
\* The (allowed, info) pair an is_allowed returns, with the cache write it
\* made; raised: the call ended in a TypeError on a value of another type.
Decision(allowed, remaining, limit, reset, has_retry, retry_after, key, wrote, entry) ==
    [allowed |-> allowed, remaining |-> remaining, limit |-> limit,
     reset |-> reset, has_retry |-> has_retry, retry_after |-> retry_after,
     key |-> key, wrote |-> wrote, entry |-> entry, raised |-> FALSE]

Raised(key) ==
    [allowed |-> FALSE, remaining |-> 0, limit |-> 0, reset |-> 0,
     has_retry |-> FALSE, retry_after |-> 0, key |-> key, wrote |-> FALSE,
     entry |-> CountEntry(0, 0), raised |-> TRUE]

\* A timeout of one interval for every algorithm.
TimeoutOneInterval(lim) == Den(lim)

\* Lines 84, 96, 141, 191: the timeout of a cache.set, in ticks; twice the
\* interval, but one interval for the fixed window's count.
Timeout(lim) ==
    IF lim.alg = "fixed_window" THEN Den(lim) ELSE 2 * Den(lim)

\* ------------------------------------------------------ TokenBucket
TokenBucket(rate, interval, burst, prefix) ==
    [alg |-> "token_bucket", rate |-> rate, interval |-> interval,
     burst |-> burst, prefix |-> prefix]

\* A key that leaves the identifier out: every client on one bucket.
TokenBucketSharedKey(lim, identifier) == lim.prefix \o Colon

TokenBucket_get_key(lim, identifier) == lim.prefix \o Colon \o identifier

\* The refill without its ceiling.
RefillUncapped(lim, tokens, time_passed) == tokens + time_passed * lim.rate

\* A refill that counts the whole seconds that passed only.
RefillWholeSeconds(lim, tokens, time_passed) ==
    Min((lim.rate + lim.burst) * Den(lim),
        tokens + Trunc(time_passed, TicksPerSecond) * TicksPerSecond * lim.rate)

\* Lines 74-79: tokens after the refill, capped at rate + burst.
Refill(lim, tokens, time_passed) ==
    Min((lim.rate + lim.burst) * Den(lim), tokens + time_passed * lim.rate)

\* A bucket that starts at its ceiling instead.
FreshTokensWithBurst(lim) == (lim.rate + lim.burst) * Den(lim)

\* Lines 68-73: a bucket that is not in the cache starts with `rate` tokens.
FreshTokens(lim) == lim.rate * Den(lim)

\* The delay without the second that is added to the truncated quotient.
TokenRetryAfterTruncated(lim, tokens) ==
    Trunc(Den(lim) - tokens, TicksPerSecond * lim.rate)

\* The delay with the quotient rounded up instead: ceil(...) + 1.
TokenRetryAfterCeiling(lim, tokens) ==
    (Den(lim) - tokens + TicksPerSecond * lim.rate - 1)
        \div (TicksPerSecond * lim.rate) + 1

\* Lines 93-94: int(tokens_needed / refill_rate) + 1, in seconds;
\* (Den - tokens)/Den tokens at rate/interval tokens a second.
TokenRetryAfter(lim, tokens) ==
    Trunc(Den(lim) - tokens, TicksPerSecond * lim.rate) + 1

\* A denial that takes its token all the same.
DeniedTokensCharged(lim, tokens) == tokens - Den(lim)

\* Lines 91-96: the denial branch stores the refilled tokens as they are.
DeniedTokens(lim, tokens) == tokens

TokenBucket_is_allowed(lim, identifier, c, t) ==
    LET key == TokenBucket_get_key(lim, identifier)
        found == CacheHas(c, key, t)
        tokens == IF found
                  THEN Refill(lim, c[key].tokens, t - c[key].last_update)
                  ELSE FreshTokens(lim)
        expires == t + Timeout(lim)
    IN  IF found /\ c[key].kind # "dict" THEN Raised(key)
        ELSE IF tokens >= Den(lim)
        THEN Decision(TRUE, Trunc(tokens - Den(lim), Den(lim)), lim.rate,
                      Trunc(t + Den(lim), TicksPerSecond), FALSE, 0,
                      key, TRUE, TokenEntry(tokens - Den(lim), t, expires))
        ELSE LET retry_after == TokenRetryAfter(lim, tokens)
             IN  Decision(FALSE, 0, lim.rate,
                          Trunc(t + retry_after * TicksPerSecond, TicksPerSecond),
                          TRUE, retry_after,
                          key, TRUE,
                          TokenEntry(DeniedTokens(lim, tokens), t, expires))

\* ------------------------------------------------ SlidingWindowCounter
SlidingWindowCounter(rate, interval, prefix) ==
    [alg |-> "sliding_window", rate |-> rate, interval |-> interval,
     burst |-> 0, prefix |-> prefix]

SlidingWindowCounter_get_key(lim, identifier) == lim.prefix \o Colon \o identifier

\* min(requests) of a non-empty list.
Oldest(requests) ==
    CHOOSE r \in {requests[n] : n \in 1..Len(requests)} :
        \A n \in 1..Len(requests) : r <= requests[n]

\* The pruning with r >= window_start: a request exactly one interval old stays.
InWindowInclusive(lim, requests, t) ==
    LET window_start == t - Den(lim)
        Inside(r) == r >= window_start
    IN  SelectSeq(requests, Inside)

\* The pruning at the boundary of the fixed window that holds t.
InWindowAligned(lim, requests, t) ==
    LET window_start == Trunc(t, Den(lim)) * Den(lim)
        Inside(r) == r >= window_start
    IN  SelectSeq(requests, Inside)

\* No pruning: the list as it was read.
InWindowUnpruned(lim, requests, t) == requests

\* The pruning with the window's start an interval ahead of t: nothing stays.
InWindowSignSlip(lim, requests, t) ==
    LET window_start == t + Den(lim)
        Inside(r) == r > window_start
    IN  SelectSeq(requests, Inside)

\* Line 137: the requests inside the window that ends at t.
InWindow(lim, requests, t) ==
    LET window_start == t - Den(lim)
        Inside(r) == r > window_start
    IN  SelectSeq(requests, Inside)

\* The comparison len(requests) <= rate: one request too many.
SlidingWindowAdmitsOneMore(lim, requests) == Len(requests) <= lim.rate

\* Line 139: the request is recorded while the pruned list is shorter than rate.
SlidingWindowAdmits(lim, requests) == Len(requests) < lim.rate

\* The wait with the difference rounded up instead: ceil(...) + 1.
SlidingRetryAfterCeiling(lim, oldest, t) ==
    (oldest + Den(lim) - t + TicksPerSecond - 1) \div TicksPerSecond + 1

\* Line 151: int(oldest + self.interval - now) + 1, in seconds.
SlidingRetryAfter(lim, oldest, t) ==
    Trunc(oldest + Den(lim) - t, TicksPerSecond) + 1

SlidingWindowCounter_is_allowed(lim, identifier, c, t) ==
    LET key == SlidingWindowCounter_get_key(lim, identifier)
        found == CacheHas(c, key, t)
        requests == InWindow(lim, IF found THEN c[key].requests ELSE NoRequests, t)
    IN  IF found /\ c[key].kind # "list" THEN Raised(key)
        ELSE IF SlidingWindowAdmits(lim, requests)
        THEN Decision(TRUE, lim.rate - (Len(requests) + 1), lim.rate,
                      Trunc(t + Den(lim), TicksPerSecond), FALSE, 0,
                      key, TRUE,
                      ListEntry(Append(requests, t), t + Timeout(lim)))
        ELSE LET oldest == IF requests # NoRequests THEN Oldest(requests) ELSE t
             IN  Decision(FALSE, 0, lim.rate,
                          Trunc(oldest + Den(lim), TicksPerSecond), TRUE,
                          SlidingRetryAfter(lim, oldest, t),
                          key, FALSE, ListEntry(requests, 0))

\* -------------------------------------------------- FixedWindowCounter
FixedWindowCounter(rate, interval, prefix) ==
    [alg |-> "fixed_window", rate |-> rate, interval |-> interval,
     burst |-> 0, prefix |-> prefix]

\* Lines 178-180: the key names the window of the clock read made here.
FixedWindowCounter_get_key(lim, identifier, t) ==
    LET window == Trunc(t, Den(lim))
    IN  lim.prefix \o Colon \o identifier \o Colon \o <<ToString(window)>>

\* The comparison count <= rate: one request too many.
FixedWindowAdmitsOneMore(lim, count) == count <= lim.rate

\* Line 190: the request is counted while the window's count is below rate.
FixedWindowAdmits(lim, count) == count < lim.rate

\* Lines 182-204; tkey is the clock read of _get_key, t the later read `now`.
FixedWindowCounter_is_allowed(lim, identifier, c, tkey, t) ==
    LET key == FixedWindowCounter_get_key(lim, identifier, tkey)
        window_end == (Trunc(t, Den(lim)) + 1) * Den(lim)
        found == CacheHas(c, key, t)
        count == IF found THEN c[key].count ELSE 0
    IN  IF found /\ c[key].kind # "int" THEN Raised(key)
        ELSE IF FixedWindowAdmits(lim, count)
        THEN Decision(TRUE, lim.rate - count - 1, lim.rate,
                      Trunc(window_end, TicksPerSecond), FALSE, 0,
                      key, TRUE, CountEntry(count + 1, t + Timeout(lim)))
        ELSE Decision(FALSE, 0, lim.rate,
                      Trunc(window_end, TicksPerSecond), TRUE,
                      Trunc(window_end - t, TicksPerSecond) + 1,
                      key, FALSE, CountEntry(count, 0))

\* limiter.is_allowed(identifier), whatever the limiter's class.
is_allowed(lim, identifier, c, tkey, t) ==
    CASE lim.alg = "token_bucket" -> TokenBucket_is_allowed(lim, identifier, c, t)
      [] lim.alg = "sliding_window" -> SlidingWindowCounter_is_allowed(lim, identifier, c, t)
      [] OTHER -> FixedWindowCounter_is_allowed(lim, identifier, c, tkey, t)

\* limiter._get_key(identifier), whatever the limiter's class.
get_key(lim, identifier, t) ==
    CASE lim.alg = "token_bucket" -> TokenBucket_get_key(lim, identifier)
      [] lim.alg = "sliding_window" -> SlidingWindowCounter_get_key(lim, identifier)
      [] OTHER -> FixedWindowCounter_get_key(lim, identifier, t)

\* The clock reads one call makes: only the fixed window reads it twice.
Skews(lim) == IF lim.alg = "fixed_window" THEN 0..MaxSkew ELSE {0}

\* ---------------------------------------------- policies, identifiers
\* Lines 208-232.
RATE_LIMITS ==
    [default |-> [rate |-> 1000, interval |-> 3600],
     burst |-> [rate |-> 100, interval |-> 60],
     login |-> [rate |-> 5, interval |-> 300],
     register |-> [rate |-> 3, interval |-> 3600],
     password_reset |-> [rate |-> 3, interval |-> 3600],
     portfolio_read |-> [rate |-> 500, interval |-> 3600],
     portfolio_write |-> [rate |-> 100, interval |-> 3600],
     export |-> [rate |-> 10, interval |-> 3600],
     pdf_generate |-> [rate |-> 20, interval |-> 3600],
     contact |-> [rate |-> 10, interval |-> 3600],
     message |-> [rate |-> 50, interval |-> 3600],
     github_import |-> [rate |-> 10, interval |-> 3600]]

\* A lookup that falls back to another policy than 'default'.
PolicyOfFallingToBurst(limit_name) ==
    IF limit_name \in DOMAIN RATE_LIMITS
    THEN RATE_LIMITS[limit_name] ELSE RATE_LIMITS["burst"]

\* RATE_LIMITS.get(limit_name, RATE_LIMITS['default'])
PolicyOf(limit_name) ==
    IF limit_name \in DOMAIN RATE_LIMITS
    THEN RATE_LIMITS[limit_name] ELSE RATE_LIMITS["default"]

\* A request: its path, the addresses of its X-Forwarded-For header (none:
\* no header), its REMOTE_ADDR ("": none) and its user's id (0: anonymous).
Request(path, forwarded_for, remote_addr, user) ==
    [path |-> path, forwarded_for |-> forwarded_for,
     remote_addr |-> remote_addr, user |-> user]

get_client_ip(request) ==
    IF request.forwarded_for # << >>
    THEN request.forwarded_for[1]
    ELSE IF request.remote_addr # "" THEN request.remote_addr ELSE "unknown"

\* An identifier that leaves the user's id out of the user scope.
IdentifierWithoutUserId(request, scope) ==
    IF scope = "user" /\ request.user # 0
    THEN <<"user", ":", "id">>
    ELSE IF scope = "ip_user" /\ request.user # 0
    THEN <<"user", ":", ToString(request.user), ":", "ip", ":",
           get_client_ip(request)>>
    ELSE <<"ip", ":", get_client_ip(request)>>

\* An identifier that leaves the address out of the ip_user scope.
IdentifierWithoutAddress(request, scope) ==
    IF scope = "user" /\ request.user # 0
    THEN <<"user", ":", ToString(request.user)>>
    ELSE IF scope = "ip_user" /\ request.user # 0
    THEN <<"user", ":", ToString(request.user), ":", "ip">>
    ELSE <<"ip", ":", get_client_ip(request)>>

get_rate_limit_identifier(request, scope) ==
    IF scope = "user" /\ request.user # 0
    THEN <<"user", ":", ToString(request.user)>>
    ELSE IF scope = "ip_user" /\ request.user # 0
    THEN <<"user", ":", ToString(request.user), ":", "ip", ":",
           get_client_ip(request)>>
    ELSE <<"ip", ":", get_client_ip(request)>>

\* ------------------------------------------------------- the wrappers
NoHeader == ""

\* The headers a wrapper may set on a response.
NoHeaders ==
    [limit |-> NoHeader, remaining |-> NoHeader, reset |-> NoHeader,
     retry_after |-> NoHeader]

\* What the downstream handler returns: an HttpResponse (which has
\* __setitem__, as Django requires of a view's result) with no quota header.
HandlerResponse ==
    [status |-> 200, code |-> "", body_retry_after |-> -1,
     has_setitem |-> TRUE, headers |-> NoHeaders]

\* JsonResponse({... 'error': {'code': 'RATE_5001', ..., 'retry_after': r}},
\* status=429)
TooManyRequests(retry_after) ==
    [status |-> 429, code |-> "RATE_5001", body_retry_after |-> retry_after,
     has_setitem |-> TRUE, headers |-> NoHeaders]

\* info.get('retry_after', 60)
RetryAfterOf(d) == IF d.has_retry THEN d.retry_after ELSE 60

\* The calls a wrapper makes for one request, in the order it makes them:
\* limiter.is_allowed (lines 306, 367) and then the handler (lines 326, 380).
CallsMade(checked, handler_calls) ==
    (IF checked THEN <<"is_allowed">> ELSE << >>)
        \o [n \in 1..handler_calls |-> "handler"]

\* The outcome of a request: the response returned (or the exception), the
\* decision it rests on and the number of calls of the downstream handler.
Outcome(response, d, checked, handler_calls) ==
    [response |-> response, raised |-> d.raised, checked |-> checked,
     allowed |-> d.allowed, remaining |-> d.remaining, limit |-> d.limit,
     reset |-> d.reset, has_retry |-> d.has_retry,
     retry_after |-> d.retry_after, key |-> d.key, wrote |-> d.wrote,
     entry |-> d.entry, handler_calls |-> handler_calls,
     calls |-> CallsMade(checked, handler_calls)]

\* A wrapper that hands the request on whatever the decision.
HandlerCallsOnDenial(d) == IF d.raised THEN 0 ELSE 1

\* Lines 308-326, 369-380: `if not allowed: return response` comes before
\* the call of the handler; an exception of is_allowed ends the request.
HandlerCalls(d) == IF d.raised \/ ~d.allowed THEN 0 ELSE 1

\* Lines 282-300: the limiter the decorator builds for each request.
DecoratorLimiter(limit_name, algorithm) ==
    LET config == PolicyOf(limit_name)
        prefix == <<"ratelimit", ":", limit_name>>
    IN  CASE algorithm = "sliding_window" ->
               SlidingWindowCounter(config.rate, config.interval, prefix)
          [] algorithm = "fixed_window" ->
               FixedWindowCounter(config.rate, config.interval, prefix)
          [] OTHER ->
               TokenBucket(config.rate, config.interval, DefaultBurst, prefix)

\* Lines 308-323: the decorator's response to a denied request.
DecoratorDenial(d) ==
    [TooManyRequests(RetryAfterOf(d)) EXCEPT
        !.headers = [limit |-> ToString(d.limit), remaining |-> "0",
                     reset |-> ToString(d.reset),
                     retry_after |-> ToString(RetryAfterOf(d))]]

\* Lines 328-332: the quota headers on the handler's response.
WithQuotaHeaders(response, d) ==
    [response EXCEPT
        !.headers = [@ EXCEPT !.limit = ToString(d.limit),
                              !.remaining = ToString(d.remaining),
                              !.reset = ToString(d.reset)]]

\* Lines 278-334: rate_limit(limit_name, scope, algorithm)(view_func)(request)
rate_limit_wrapper(limit_name, scope, algorithm, request, c, tkey, t) ==
    LET limiter == DecoratorLimiter(limit_name, algorithm)
        identifier == get_rate_limit_identifier(request, scope)
        d == is_allowed(limiter, identifier, c, tkey, t)
    IN  IF d.raised THEN Outcome(HandlerResponse, d, TRUE, HandlerCalls(d))
        ELSE IF ~d.allowed
        THEN Outcome(DecoratorDenial(d), d, TRUE, HandlerCalls(d))
        ELSE Outcome(IF HandlerResponse.has_setitem
                     THEN WithQuotaHeaders(HandlerResponse, d)
                     ELSE HandlerResponse, d, TRUE, HandlerCalls(d))

\* Lines 348-355.
GlobalLimiter == TokenBucket(1000, 3600, 100, <<"ratelimit", ":", "global">>)

\* Line 359.
skip_paths == { <<"/", "admin", "/">>, <<"/", "static", "/">>,
                <<"/", "media", "/">>, <<"/", "health", "/">> }

\* str.startswith
StartsWith(str, p) == Len(p) <= Len(str) /\ SubSeq(str, 1, Len(p)) = p

\* Lines 369-377: the middleware's response to a denied request.
MiddlewareDenial(d) == TooManyRequests(RetryAfterOf(d))

\* Lines 357-387: RateLimitMiddleware.__call__(request)
RateLimitMiddleware_call(request, c, t) ==
    LET identifier == get_rate_limit_identifier(request, "ip")
        d == is_allowed(GlobalLimiter, identifier, c, t, t)
    IN  IF \E p \in skip_paths : StartsWith(request.path, p)
        THEN Outcome(HandlerResponse,
                     [Raised(<< >>) EXCEPT !.raised = FALSE], FALSE, 1)
        ELSE IF d.raised THEN Outcome(HandlerResponse, d, TRUE, HandlerCalls(d))
        ELSE IF ~d.allowed
        THEN Outcome(MiddlewareDenial(d), d, TRUE, HandlerCalls(d))
        ELSE Outcome(WithQuotaHeaders(HandlerResponse, d), d, TRUE,
                     HandlerCalls(d))

\* Lines 399-405: the limiter of a throttle class with this rate_name.
ThrottleLimiter(rate_name) ==
    LET config == PolicyOf(rate_name)
    IN  TokenBucket(config.rate, config.interval, DefaultBurst,
                    <<"drf_throttle", ":", rate_name>>)

\* What rest_framework answers when allow_request returns False: status 429
\* with Retry-After set to wait().
Throttled(d) ==
    [TooManyRequests(RetryAfterOf(d)) EXCEPT
        !.code = "throttled",
        !.headers = [NoHeaders EXCEPT !.retry_after = ToString(RetryAfterOf(d))]]

\* Lines 407-413: CustomRateThrottle.allow_request(request, view) and wait()
CustomRateThrottle_allow_request(rate_name, scope, request, c, t) ==
    LET identifier == get_rate_limit_identifier(request, scope)
        d == is_allowed(ThrottleLimiter(rate_name), identifier, c, t, t)
    IN  IF d.raised THEN Outcome(HandlerResponse, d, TRUE, HandlerCalls(d))
        ELSE IF ~d.allowed THEN Outcome(Throttled(d), d, TRUE, HandlerCalls(d))
        ELSE Outcome(HandlerResponse, d, TRUE, HandlerCalls(d))

\* ------------------------------------------------- core/throttling.py
\* throttling.py, lines 100-110: its own get_client_ip, REMOTE_ADDR or ''.
throttling_get_client_ip(request) ==
    IF request.forwarded_for # << >>
    THEN request.forwarded_for[1]
    ELSE request.remote_addr

\* Lines 137-140: f"user_{request.user.id}" or f"ip_{get_client_ip(request)}".
throttling_identifier(request) ==
    IF request.user # 0
    THEN <<"user_", ToString(request.user)>>
    ELSE <<"ip_", throttling_get_client_ip(request)>>

\* Line 142.
cache_key(key_prefix, identifier) ==
    <<"ratelimit", ":", key_prefix, ":">> \o identifier

\* Line 143.
block_key(key_prefix, identifier) ==
    <<"ratelimit", ":", "block", ":", key_prefix, ":">> \o identifier

\* The arguments of rate_limit(key_prefix, limit, period, block_duration),
\* the times in seconds; block_duration 0: None.
RateLimit(key_prefix, limit, period, block_duration) ==
    [kind |-> "throttling", key_prefix |-> key_prefix, limit |-> limit,
     period |-> period, block_duration |-> block_duration]

\* Line 161: the value True under the block key.
BlockEntry(expires) ==
    [kind |-> "bool", tokens |-> 0, last_update |-> 0,
     requests |-> NoRequests, count |-> 1, expires |-> expires]

\* A decorator that never finds its client blocked.
BlockedNever(w, request, c, t) == FALSE

\* Line 146: cache.get(block_key) is truthy while the block key is stored.
Blocked(w, request, c, t) ==
    CacheHas(c, block_key(w.key_prefix, throttling_identifier(request)), t)

\* Line 156: cache.get(cache_key, 0).
CurrentCount(w, request, c, t) ==
    LET key == cache_key(w.key_prefix, throttling_identifier(request))
    IN  IF CacheHas(c, key, t) THEN c[key].count ELSE 0

\* A counter that is full one request later.
LimitReachedOneLater(w, current_count) == current_count > w.limit

\* Line 158.
LimitReached(w, current_count) == current_count >= w.limit

\* Line 175: cache.incr(key) adds one to the stored value and leaves the
\* key's timeout as it is (LocMemCache and RedisCache alike, the backends of
\* config/settings.py).
cache_incr(c, key) == [c EXCEPT ![key].count = @ + 1]

\* What the decorator returns for a request, or the exception that ends it,
\* and whether the wrapped view was called.
Reply(status, error, retry_after, view_called) ==
    [status |-> status, error |-> error, retry_after |-> retry_after,
     view_called |-> view_called]

\* Lines 147-153: the response to a blocked client is built from
\* cache.ttl(block_key); the cache backends of config/settings.py (Django's
\* RedisCache and LocMemCache) have no method ttl, so building it raises
\* AttributeError.
BlockedReply(w) == Reply(500, "AttributeError", 0, FALSE)

\* Lines 163-169.
LimitReply(w) == Reply(429, "", w.period, FALSE)

\* Line 177: the wrapped view's response.
ViewReply == Reply(200, "", 0, TRUE)

\* Line 175: cache.incr of a key that is not stored raises ValueError.
IncrFailure == Reply(500, "ValueError", 0, FALSE)

\* pending, per worker: where its request stands (idle: it has none), the
\* count it read, and whether a block was running when it came in.
NoRequest == [stage |-> "idle", current_count |-> 0, blocked |-> FALSE]

\* outcome and tally are history variables.  outcome: the reply to the
\* latest finished request, whether a block was running when it came in,
\* and the count stored before and after its last step.
NoOutcome ==
    [done |-> FALSE, status |-> 0, error |-> "", retry_after |-> 0,
     view_called |-> FALSE, blocked |-> FALSE, was |-> 0, stored |-> 0]

Finished(reply, blocked, was, stored) ==
    [done |-> TRUE, status |-> reply.status, error |-> reply.error,
     retry_after |-> reply.retry_after, view_called |-> reply.view_called,
     blocked |-> blocked, was |-> was, stored |-> stored]

\* tally: the end of the block set last (-1: none runs), the time of the
\* first request of the stored counter (-1: none is stored), the calls of
\* the view since then, and whether requests have overlapped.
NoTally ==
    [blocked_until |-> -1, window_start |-> -1, views |-> 0,
     overlapped |-> FALSE]

\* ------------------------------------------------------- the system
\* last, streak, okRun and fullAt are history variables: they record the
\* calls made and take no part in any decision.
\* What is remembered of the latest call for the watched identifier: its
\* decision, the clock reads it made, whether it found no stored state, the
\* full burst it came after, and the denial it followed (if it followed one).
NoCall ==
    [called |-> FALSE, allowed |-> FALSE, remaining |-> 0, limit |-> 0,
     reset |-> 0, has_retry |-> FALSE, retry_after |-> 0, raised |-> FALSE,
     tkey |-> 0, t |-> 0, fresh |-> FALSE, full0 |-> -1,
     after_denial |-> FALSE, denied_at |-> 0, denied_retry |-> 0]

Call(d, tkey, t, fresh, full0, before) ==
    [called |-> TRUE, allowed |-> d.allowed, remaining |-> d.remaining,
     limit |-> d.limit, reset |-> d.reset, has_retry |-> d.has_retry,
     retry_after |-> d.retry_after, raised |-> d.raised,
     tkey |-> tkey, t |-> t, fresh |-> fresh, full0 |-> full0,
     after_denial |-> before.called /\ ~before.allowed /\ ~before.raised,
     denied_at |-> IF before.called /\ ~before.allowed /\ ~before.raised
                   THEN before.t ELSE 0,
     denied_retry |-> IF before.called /\ ~before.allowed /\ ~before.raised
                      THEN before.retry_after ELSE 0]

NoRun == [t0 |-> 0, n |-> 0, instant |-> FALSE]

\* The limiter of an algorithm in this run.
LimiterOf(a) == CHOOSE lim \in limiters : lim.alg = a

Running == {lim.alg : lim \in limiters}

\* The class defaults of the prefix (lines 43, 118, 172).
DefaultLimiter(a, rate, interval, burst) ==
    CASE a = "token_bucket" -> TokenBucket(rate, interval, burst, <<"token_bucket">>)
      [] a = "sliding_window" -> SlidingWindowCounter(rate, interval, <<"sliding_window">>)
      [] OTHER -> FixedWindowCounter(rate, interval, <<"fixed_window">>)

Bursts(a) == IF a = "token_bucket" THEN 0..MaxBurst ELSE {0}

Nobody == << >>

\* No wrapper, no client, nothing served: the limiter is called directly.
NoWrapper == [kind |-> "none", limit_name |-> "", scope |-> "", algorithm |-> ""]

NoClient == [forwarded_for |-> << >>, remote_addr |-> "", user |-> 0]

Served(by, o) ==
    [by |-> by, response |-> o.response, raised |-> o.raised,
     checked |-> o.checked, allowed |-> o.allowed, remaining |-> o.remaining,
     limit |-> o.limit, reset |-> o.reset, has_retry |-> o.has_retry,
     retry_after |-> o.retry_after, handler_calls |-> o.handler_calls,
     calls |-> o.calls]

NothingServed ==
    Served("none", Outcome(HandlerResponse,
                           [Raised(<< >>) EXCEPT !.raised = FALSE], FALSE, 0))

InitDirect ==
    /\ wrapper = NoWrapper
    /\ client = NoClient
    /\ served = NothingServed

Unbounded == -1

\* The run has no wrappers side by side.
NoTraffic ==
    /\ endpoints = {}
    /\ visitors = {}
    /\ seen = {}
    /\ budget = Unbounded

\* The workers that serve requests concurrently.
Workers == 1..MaxWorkers

Idle == [stage |-> "idle", alg |-> "", tkey |-> 0, t |-> 0, snapshot |-> << >>]

NoRace == [admitted |-> 0, overlapped |-> FALSE]

\* No allowed call has left a bucket for the watched identifier.
NoDraw == [tokens |-> 0, t |-> -1]

InitStore ==
    /\ now = 0
    /\ cache = << >>
    /\ flight = [p \in Workers |-> Idle]
    /\ raced = [a \in Algorithms |-> NoRace]
    /\ admits = << >>
    /\ drawn = NoDraw
    /\ pending = [p \in Workers |-> NoRequest]
    /\ outcome = NoOutcome
    /\ tally = NoTally
    /\ last = [a \in Algorithms |-> NoCall]
    /\ streak = [a \in Algorithms |-> NoRun]
    /\ okRun = [a \in Algorithms |-> NoRun]
    /\ fullAt = [a \in Algorithms |-> -1]

InitRest ==
    /\ InitStore
    /\ NoTraffic

\* One limiter of any algorithm and any small policy, one client.
Init ==
    /\ \E a \in Algorithms, rate \in 1..MaxRate, interval \in 1..MaxInterval :
         \E burst \in Bursts(a) :
            limiters = {DefaultLimiter(a, rate, interval, burst)}
    /\ \E identifier \in Identifiers : ids = {identifier} /\ watched = identifier
    /\ InitRest
    /\ InitDirect

\* One limiter and two clients.
InitIsolation ==
    /\ \E a \in Algorithms, rate \in 1..MaxRate, interval \in 1..MaxInterval :
         \E burst \in Bursts(a) :
            limiters = {DefaultLimiter(a, rate, interval, burst)}
    /\ ids = Identifiers
    /\ watched = Nobody
    /\ InitRest
    /\ InitDirect

\* The allowed calls made at the instant t, this one counted.
RunAfter(run, d, skew, t, rate) ==
    IF ~d.allowed \/ skew # 0 THEN run
    ELSE IF run.n > 0 /\ run.t0 = t
         THEN [t0 |-> t, n |-> Min(run.n + 1, rate), instant |-> TRUE]
         ELSE [t0 |-> t, n |-> 1, instant |-> TRUE]

\* The calls made since one found no stored state at t0, all of them less
\* than a second after t0; instant: all of them at t0 itself.
StreakAfter(run, fresh, skew, t, rate) ==
    IF fresh THEN [t0 |-> t, n |-> 1, instant |-> skew = 0]
    ELSE IF run.n > 0 /\ t < run.t0 + TicksPerSecond
         THEN [t0 |-> run.t0, n |-> Min(run.n + 1, rate + 2),
               instant |-> run.instant /\ skew = 0 /\ t = run.t0]
         ELSE NoRun

Within(run, t) == IF run.n > 0 /\ t < run.t0 + TicksPerSecond THEN run ELSE NoRun

\* What is remembered stays only while it can matter.
Forget(run, t) == IF run.n > 0 /\ run.t0 = t THEN run ELSE NoRun

Recent(full, a, t) == IF full >= 0 /\ t < full + Den(LimiterOf(a)) THEN full ELSE -1

\* The allowed calls that are not yet a whole interval old at time t.
StillNear(calls, t, lim) ==
    LET Near(call) == call.t >= t - Den(lim)
    IN  SelectSeq(calls, Near)

\* The clock reads of the allowed calls, this one counted.
AdmitsAfter(calls, d, tkey, t, lim) ==
    StillNear(IF d.allowed THEN Append(calls, [tkey |-> tkey, t |-> t])
              ELSE calls, t, lim)

\* The bucket an allowed token-bucket call stores (lines 83-89): its tokens
\* after the decrement and its time; a denied call draws nothing.
DrawnAfter(before, d, t) ==
    IF d.allowed THEN [tokens |-> d.entry.tokens, t |-> t] ELSE before

\* One call limiter.is_allowed(identifier); skew is the time that passes
\* between the call's clock reads.
Check(a, identifier, skew) ==
    /\ a \in Running
    /\ identifier \in ids
    /\ skew \in Skews(LimiterOf(a))
    /\ now + skew <= MaxNow
    /\ LET lim == LimiterOf(a)
           t == now + skew
           c == CacheExpire(cache, t)
           d == is_allowed(lim, identifier, c, now, t)
           fresh == ~CacheHas(c, d.key, t)
           run == RunAfter(Forget(okRun[a], t), d, skew, t, lim.rate)
       IN  /\ now' = t
           /\ cache' = IF d.wrote THEN CacheSet(c, d.key, d.entry) ELSE c
           /\ IF identifier = watched
              THEN /\ last' = [b \in Algorithms |->
                                 IF b = a
                                 THEN Call(d, now, t, fresh, fullAt[a], last[a])
                                 ELSE last[b]]
                   /\ streak' = [b \in Algorithms |->
                                 IF b = a
                                 THEN StreakAfter(streak[a], fresh, skew, t, lim.rate)
                                 ELSE Within(streak[b], t)]
                   /\ okRun' = [b \in Algorithms |->
                                 IF b = a THEN run ELSE Forget(okRun[b], t)]
                   /\ fullAt' = [b \in Algorithms |->
                                 IF b \notin Running THEN -1
                                 ELSE IF b = a /\ d.allowed /\ skew = 0
                                         /\ run.n = lim.rate
                                 THEN t
                                 ELSE Recent(fullAt[b], b, t)]
              ELSE UNCHANGED <<last, streak, okRun, fullAt>>
           /\ admits' = IF identifier = watched /\ a = "fixed_window"
                        THEN AdmitsAfter(admits, d, now, t, lim)
                        ELSE admits
           /\ drawn' = IF identifier = watched /\ a = "token_bucket"
                       THEN DrawnAfter(drawn, d, t)
                       ELSE drawn
    /\ UNCHANGED <<limiters, ids, watched, wrapper, client, served,
                   endpoints, visitors, seen, budget, flight, raced,
                   pending, outcome, tally>>

\* What is remembered of a block or of a counter ends with its cache entry.
TallyAt(tl, c, t) ==
    IF wrapper.kind # "throttling" THEN tl
    ELSE LET request == Request(<< >>, client.forwarded_for,
                                client.remote_addr, client.user)
             counted == CacheHas(c, cache_key(wrapper.key_prefix,
                                              throttling_identifier(request)), t)
         IN  [tl EXCEPT !.blocked_until = IF @ > t THEN @ ELSE -1,
                        !.window_start = IF counted THEN @ ELSE -1,
                        !.views = IF counted THEN @ ELSE 0]

\* Time passes; the entries whose timeout runs out are gone.
Tick ==
    /\ now < MaxNow
    /\ now' = now + 1
    /\ cache' = CacheExpire(cache, now + 1)
    /\ streak' = [a \in Algorithms |-> Within(streak[a], now + 1)]
    /\ okRun' = [a \in Algorithms |-> NoRun]
    /\ fullAt' = [a \in Algorithms |->
                    IF a \in Running THEN Recent(fullAt[a], a, now + 1) ELSE -1]
    /\ admits' = IF "fixed_window" \in Running
                 THEN StillNear(admits, now + 1, LimiterOf("fixed_window"))
                 ELSE admits
    /\ drawn' = IF "token_bucket" \in Running
                    /\ CacheHas(cache, get_key(LimiterOf("token_bucket"),
                                               watched, now), now + 1)
                THEN drawn ELSE NoDraw
    /\ tally' = TallyAt(tally, CacheExpire(cache, now + 1), now + 1)
    /\ UNCHANGED <<limiters, ids, watched, last, wrapper, client, served,
                   endpoints, visitors, seen, budget, flight, raced,
                   pending, outcome>>

Next ==
    \/ \E a \in Algorithms, identifier \in Identifiers, skew \in 0..MaxSkew :
          Check(a, identifier, skew)
    \/ Tick

\* The scenario of one client of TokenBucket(rate=5, interval=60).
InitScenario ==
    /\ limiters = {TokenBucket(5, 60, DefaultBurst, <<"token_bucket">>)}
    /\ \E identifier \in Identifiers : ids = {identifier} /\ watched = identifier
    /\ InitRest
    /\ InitDirect

\* The policies, scopes and paths of the requests that are tried.
LimitNames == {"login"}

Scopes == {"ip", "user", "ip_user"}

Paths == { <<"/", "api", "/", "auth", "/", "login", "/">>,
           <<"/", "health", "/", "live", "/">>,
           <<"/", "health">> }

Clients ==
    { [forwarded_for |-> << >>, remote_addr |-> "10.0.0.1", user |-> 0],
      [forwarded_for |-> <<"1.2.3.4", "10.0.0.9">>, remote_addr |-> "10.0.0.9",
       user |-> 7] }

Wrappers ==
    {[kind |-> "middleware", limit_name |-> "", scope |-> "", algorithm |-> ""]}
    \cup {[kind |-> "decorator", limit_name |-> n, scope |-> sc, algorithm |-> a] :
             n \in LimitNames, sc \in Scopes, a \in Algorithms}

\* One wrapper, the middleware or a decorated view, and one client.
InitWrap ==
    /\ limiters = {}
    /\ ids = {}
    /\ watched = Nobody
    /\ InitRest
    /\ wrapper \in Wrappers
    /\ client \in Clients
    /\ served = NothingServed

\* A request of the client to a view decorated with rate_limit.
Decorated(path, skew) ==
    /\ wrapper.kind = "decorator"
    /\ skew \in Skews(DecoratorLimiter(wrapper.limit_name, wrapper.algorithm))
    /\ now + skew <= MaxNow
    /\ LET t == now + skew
           c == CacheExpire(cache, t)
           request == Request(path, client.forwarded_for, client.remote_addr,
                              client.user)
           o == rate_limit_wrapper(wrapper.limit_name, wrapper.scope,
                                   wrapper.algorithm, request, c, now, t)
       IN  /\ now' = t
           /\ cache' = IF o.wrote THEN CacheSet(c, o.key, o.entry) ELSE c
           /\ served' = Served("decorator", o)
    /\ UNCHANGED <<limiters, ids, watched, last, streak, okRun, fullAt,
                   wrapper, client, endpoints, visitors, seen, budget,
                   flight, raced, admits, drawn,
                   pending, outcome, tally>>

\* A request of the client through RateLimitMiddleware.
Middleware(path) ==
    /\ wrapper.kind = "middleware"
    /\ LET c == CacheExpire(cache, now)
           request == Request(path, client.forwarded_for, client.remote_addr,
                              client.user)
           o == RateLimitMiddleware_call(request, c, now)
       IN  /\ cache' = IF o.wrote THEN CacheSet(c, o.key, o.entry) ELSE c
           /\ served' = Served("middleware", o)
    /\ UNCHANGED <<limiters, now, ids, watched, last, streak, okRun, fullAt,
                   wrapper, client, endpoints, visitors, seen, budget,
                   flight, raced, admits, drawn,
                   pending, outcome, tally>>

NextWrap ==
    \/ \E path \in Paths, skew \in 0..MaxSkew : Decorated(path, skew)
    \/ \E path \in Paths : Middleware(path)
    \/ Tick

\* ---------------------------------------- several wrappers side by side
Decorator(limit_name, scope, algorithm) ==
    [kind |-> "decorator", limit_name |-> limit_name, scope |-> scope,
     algorithm |-> algorithm]

\* RateLimitMiddleware identifies its clients by IP (line 364); the policy
\* name in its keys is the `global` of its prefix (line 354).
TheMiddleware ==
    [kind |-> "middleware", limit_name |-> "global", scope |-> "ip",
     algorithm |-> "token_bucket"]

\* A subclass of CustomRateThrottle: its rate_name, the class's scope 'ip'.
Throttle(rate_name) ==
    [kind |-> "throttle", limit_name |-> rate_name, scope |-> "ip",
     algorithm |-> "token_bucket"]

\* The request as the wrapper w handles it.
Handle(w, request, c, tkey, t) ==
    CASE w.kind = "decorator" ->
           rate_limit_wrapper(w.limit_name, w.scope, w.algorithm, request,
                              c, tkey, t)
      [] w.kind = "throttle" ->
           CustomRateThrottle_allow_request(w.limit_name, w.scope, request, c, t)
      [] OTHER -> RateLimitMiddleware_call(request, c, t)

\* The limiter the wrapper w consults.
LimiterAt(w) ==
    CASE w.kind = "decorator" -> DecoratorLimiter(w.limit_name, w.algorithm)
      [] w.kind = "throttle" -> ThrottleLimiter(w.limit_name)
      [] OTHER -> GlobalLimiter

\* What is remembered of a rate check: the wrapper and its policy, the
\* client, the identifier computed and the key consulted.
Use(w, request, key) ==
    [kind |-> w.kind, algorithm |-> w.algorithm, limit_name |-> w.limit_name,
     scope |-> w.scope, user |-> request.user, ip |-> get_client_ip(request),
     identifier |-> get_rate_limit_identifier(request, w.scope), key |-> key]

\* A request of the client cl to the endpoint behind the wrapper w.
Serve(w, cl, path, skew) ==
    /\ budget # 0
    /\ w \in endpoints
    /\ cl \in visitors
    /\ skew \in Skews(LimiterAt(w))
    /\ now + skew <= MaxNow
    /\ LET t == now + skew
           c == CacheExpire(cache, t)
           request == Request(path, cl.forwarded_for, cl.remote_addr, cl.user)
           o == Handle(w, request, c, now, t)
       IN  /\ now' = t
           /\ cache' = IF o.wrote THEN CacheSet(c, o.key, o.entry) ELSE c
           /\ served' = Served(w.kind, o)
           /\ seen' = IF o.checked THEN seen \cup {Use(w, request, o.key)}
                      ELSE seen
    /\ budget' = IF budget = Unbounded THEN Unbounded ELSE budget - 1
    /\ UNCHANGED <<limiters, ids, watched, last, streak, okRun, fullAt,
                   wrapper, client, endpoints, visitors,
                   flight, raced, admits, drawn,
                   pending, outcome, tally>>

NextServe ==
    \/ \E w \in endpoints, cl \in visitors, path \in Paths, skew \in 0..MaxSkew :
          Serve(w, cl, path, skew)
    \/ Tick

\* No limiter is called directly, no single wrapper stands alone.
InitServed ==
    /\ limiters = {}
    /\ ids = {}
    /\ watched = Nobody
    /\ InitStore
    /\ InitDirect
    /\ seen = {}

\* Policy names that are not keys of RATE_LIMITS.
UnknownNames == {"signup"}

\* A client without a session, straight from its own address.
Passerby == [forwarded_for |-> << >>, remote_addr |-> "10.0.0.1", user |-> 0]

\* One wrapper that was given an unknown policy name, and one client.
InitFallback ==
    /\ InitServed
    /\ \E n \in UnknownNames :
          endpoints \in { {Decorator(n, "ip", "token_bucket")},
                          {Decorator(n, "ip", "fixed_window")},
                          {Throttle(n)} }
    /\ visitors = {Passerby}
    /\ budget = Unbounded

SpecFallback == InitFallback /\ [][NextServe]_vars

\* Clients with a session, behind one address or another.
Member(user) == [forwarded_for |-> << >>, remote_addr |-> "10.0.0.1", user |-> user]

Proxied(user) ==
    [forwarded_for |-> <<"1.2.3.4", "10.0.0.9">>, remote_addr |-> "10.0.0.9",
     user |-> user]

\* The pairs of clients of a run: they differ in the session, in the user or
\* in the address.
VisitorSets ==
    { {Passerby, Member(7)}, {Member(7), Member(8)}, {Member(7), Proxied(7)} }

\* The wrappers that are deployed side by side in one run.
EndpointSets ==
    { {Decorator("login", "ip", "token_bucket"),
       Decorator("login", "ip", "sliding_window")},
      {Decorator("login", "ip", "sliding_window"),
       Decorator("login", "ip", "fixed_window")},
      {Decorator("login", "user", "token_bucket"),
       Decorator("login", "ip_user", "token_bucket")},
      {Decorator("login", "user", "token_bucket"),
       Decorator("register", "user", "token_bucket")},
      {TheMiddleware, Decorator("login", "ip", "token_bucket")},
      {TheMiddleware, Decorator("global", "ip", "token_bucket")},
      {Throttle("login"), Decorator("login", "ip", "token_bucket")} }

\* Two wrappers side by side, two clients, and a few requests.
InitShared ==
    /\ InitServed
    /\ endpoints \in EndpointSets
    /\ visitors \in VisitorSets
    /\ budget = MaxRequests

SpecShared == InitShared /\ [][NextServe]_vars

\* ------------------------------------------------- concurrent calls
\* The identifier the workers' calls are for.
Racer == <<"ip", ":", "1.2.3.4">>

\* What cache.get(key) gives a call to work on: the entry, if there is one.
Snapshot(c, key, t) ==
    IF CacheHas(c, key, t) THEN [k \in {key} |-> c[key]] ELSE << >>

\* A worker enters is_allowed: it computes the key, reads the clock and does
\* its cache.get (lines 62-66, 129-134, 184-188).  The workers being alike,
\* the call goes to the first idle one.
Get(p, a, skew) ==
    /\ budget > 0
    /\ flight[p].stage = "idle"
    /\ \A q \in Workers : q < p => flight[q].stage # "idle"
    /\ a \in Running
    /\ skew \in Skews(LimiterOf(a))
    /\ now + skew <= MaxNow
    /\ LET lim == LimiterOf(a)
           t == now + skew
           c == CacheExpire(cache, t)
           key == get_key(lim, Racer, now)
       IN  /\ now' = t
           /\ cache' = c
           /\ flight' = [flight EXCEPT ![p] =
                           [stage |-> "read", alg |-> a, tkey |-> now, t |-> t,
                            snapshot |-> Snapshot(c, key, t)]]
           /\ raced' = [raced EXCEPT ![a].overlapped =
                           @ \/ \E q \in Workers \ {p} :
                                   flight[q].stage = "read" /\ flight[q].alg = a]
    /\ budget' = budget - 1
    /\ UNCHANGED <<limiters, ids, watched, last, streak, okRun, fullAt,
                   wrapper, client, served, endpoints, visitors, seen, admits, drawn,
                   pending, outcome, tally>>

\* The worker decides on what it read and does its cache.set, if the branch
\* it takes has one (lines 82-98, 139-141, 190-191); the timeout of the entry
\* runs from the time of the set.
Set(p) ==
    /\ flight[p].stage = "read"
    /\ LET a == flight[p].alg
           d == is_allowed(LimiterOf(a), Racer, flight[p].snapshot,
                           flight[p].tkey, flight[p].t)
           entry == [d.entry EXCEPT !.expires = @ + (now - flight[p].t)]
       IN  /\ cache' = IF d.wrote THEN CacheSet(cache, d.key, entry) ELSE cache
           /\ raced' = [raced EXCEPT ![a].admitted =
                           IF d.allowed THEN @ + 1 ELSE @]
    /\ flight' = [flight EXCEPT ![p] = Idle]
    /\ UNCHANGED <<limiters, now, ids, watched, last, streak, okRun, fullAt,
                   wrapper, client, served, endpoints, visitors, seen, budget,
                   admits, drawn,
                   pending, outcome, tally>>

NextRace ==
    \/ \E p \in Workers, a \in Algorithms, skew \in 0..MaxSkew : Get(p, a, skew)
    \/ \E p \in Workers : Set(p)
    \/ Tick

\* The limiters of one policy whose calls the workers make: the token bucket
\* and the sliding window side by side, or the fixed window.
InitRace ==
    /\ \E rate \in 1..MaxRate, interval \in 1..MaxInterval :
       \E algs \in {{"token_bucket", "sliding_window"}, {"fixed_window"}} :
          limiters = {DefaultLimiter(a, rate, interval,
                                     IF a = "token_bucket" THEN MaxBurst ELSE 0) :
                         a \in algs}
    /\ ids = {Racer}
    /\ watched = Nobody
    /\ InitStore
    /\ InitDirect
    /\ endpoints = {} /\ visitors = {} /\ seen = {}
    /\ budget = MaxCalls

SpecRace == InitRace /\ [][NextRace]_vars

\* ------------------------- requests through core.throttling.rate_limit
\* The request of the client, whatever its path.
ClientRequest ==
    Request(<< >>, client.forwarded_for, client.remote_addr, client.user)

ClientCacheKey ==
    cache_key(wrapper.key_prefix, throttling_identifier(ClientRequest))

ClientBlockKey ==
    block_key(wrapper.key_prefix, throttling_identifier(ClientRequest))

\* The count stored for the client (none: 0).
StoredCount(c) == CurrentCount(wrapper, ClientRequest, c, now)

\* Lines 137-153: a worker takes a request of the client into the wrapper,
\* which looks for the block key; the workers being alike, the request goes
\* to the first idle one.
CheckBlock(p) ==
    /\ wrapper.kind = "throttling"
    /\ pending[p].stage = "idle"
    /\ \A q \in Workers : q < p => pending[q].stage # "idle"
    /\ LET late == now < tally.blocked_until
       IN  IF Blocked(wrapper, ClientRequest, cache, now)
           THEN /\ outcome' = Finished(BlockedReply(wrapper), late,
                                       StoredCount(cache), StoredCount(cache))
                /\ pending' = pending
           ELSE /\ outcome' = outcome
                /\ pending' = [pending EXCEPT ![p] =
                                  [stage |-> "entered", current_count |-> 0,
                                   blocked |-> late]]
    /\ tally' = [tally EXCEPT !.overlapped =
                    @ \/ \E q \in Workers \ {p} : pending[q].stage # "idle"]
    /\ UNCHANGED <<limiters, now, cache, ids, watched, last, streak, okRun,
                   fullAt, wrapper, client, served, endpoints, visitors, seen,
                   budget, flight, raced, admits, drawn>>

\* Lines 156-169: the wrapper reads the client's count; at the limit it sets
\* the block key, if block_duration is set, and answers 429.
GetCount(p) ==
    /\ pending[p].stage = "entered"
    /\ LET current_count == CurrentCount(wrapper, ClientRequest, cache, now)
           until == now + wrapper.block_duration * TicksPerSecond
       IN  IF LimitReached(wrapper, current_count)
           THEN /\ cache' = IF wrapper.block_duration # 0
                            THEN CacheSet(cache, ClientBlockKey, BlockEntry(until))
                            ELSE cache
                /\ tally' = IF wrapper.block_duration # 0
                            THEN [tally EXCEPT !.blocked_until = until]
                            ELSE tally
                /\ outcome' = Finished(LimitReply(wrapper), pending[p].blocked,
                                       current_count, current_count)
                /\ pending' = [pending EXCEPT ![p] = NoRequest]
           ELSE /\ pending' = [pending EXCEPT ![p] =
                                  [stage |-> "counted",
                                   current_count |-> current_count,
                                   blocked |-> pending[p].blocked]]
                /\ UNCHANGED <<cache, tally, outcome>>
    /\ UNCHANGED <<limiters, now, ids, watched, last, streak, okRun,
                   fullAt, wrapper, client, served, endpoints, visitors, seen,
                   budget, flight, raced, admits, drawn>>

\* Lines 171-177: the wrapper counts the request, with cache.set if it read
\* no count and with cache.incr otherwise, and calls the view.
Increment(p) ==
    /\ pending[p].stage = "counted"
    /\ LET was == StoredCount(cache)
           stored == CacheHas(cache, ClientCacheKey, now)
           until == now + wrapper.period * TicksPerSecond
       IN  IF pending[p].current_count = 0
           THEN /\ cache' = CacheSet(cache, ClientCacheKey, CountEntry(1, until))
                /\ outcome' = Finished(ViewReply, pending[p].blocked, was, 1)
                /\ tally' = IF stored
                            THEN [tally EXCEPT !.views = @ + 1]
                            ELSE [tally EXCEPT !.views = 1, !.window_start = now]
           ELSE IF stored
           THEN /\ cache' = cache_incr(cache, ClientCacheKey)
                /\ outcome' = Finished(ViewReply, pending[p].blocked, was, was + 1)
                /\ tally' = [tally EXCEPT !.views = @ + 1]
           ELSE /\ cache' = cache
                /\ outcome' = Finished(IncrFailure, pending[p].blocked, was, was)
                /\ tally' = tally
    /\ pending' = [pending EXCEPT ![p] = NoRequest]
    /\ UNCHANGED <<limiters, now, ids, watched, last, streak, okRun,
                   fullAt, wrapper, client, served, endpoints, visitors, seen,
                   budget, flight, raced, admits, drawn>>

NextThrottling ==
    \/ \E p \in Workers : CheckBlock(p)
    \/ \E p \in Workers : GetCount(p)
    \/ \E p \in Workers : Increment(p)
    \/ Tick

\* One view decorated with rate_limit, with or without a block_duration, and
\* one client.
InitThrottling ==
    /\ limiters = {}
    /\ ids = {}
    /\ watched = Nobody
    /\ InitRest
    /\ \E limit \in 1..MaxRate, period \in 1..MaxInterval,
          block_duration \in 0..MaxBlock :
          wrapper = RateLimit("login", limit, period, block_duration)
    /\ client \in Clients
    /\ served = NothingServed

SpecThrottling == InitThrottling /\ [][NextThrottling]_vars

SpecWrap == InitWrap /\ [][NextWrap]_vars

Spec == Init /\ [][Next]_vars

SpecScenario == InitScenario /\ [][Next]_vars

SpecIsolation == InitIsolation /\ [][Next]_vars

\* ------------------------------------------------------------ claims
Denied(call) == call.called /\ ~call.allowed /\ ~call.raised

\* C1 (admission ceiling): of the calls made for one identifier at one
\* instant, the first of which found no stored state, the first `rate`
\* are allowed and the next one, the (rate+1)th, is denied.
AdmissionCeiling ==
    \A a \in Running :
        (last[a].called /\ streak[a].n > 0 /\ streak[a].instant
            /\ last[a].t = streak[a].t0)
        => /\ streak[a].n <= LimiterOf(a).rate => last[a].allowed
           /\ streak[a].n = LimiterOf(a).rate + 1 => Denied(last[a])

AdmissionCeilingReached ==
    \E a \in Running :
        /\ streak[a].instant /\ streak[a].n = LimiterOf(a).rate + 1
        /\ LimiterOf(a).rate = MaxRate
        /\ Denied(last[a]) /\ last[a].t = streak[a].t0

KeysOf(lim, identifier) == {get_key(lim, identifier, t) : t \in 0..MaxNow}

\* What cache.get(key) returns at time t, None being the empty record.
Lookup(c, key, t) == IF CacheHas(c, key, t) THEN {c[key]} ELSE {}

\* A step from cache c to cache c2 at time t leaves all of an identifier's
\* keys as they were, and with them every decision it will get.
Untouched(lim, identifier, c, c2, t) ==
    /\ \A key \in KeysOf(lim, identifier) : Lookup(c2, key, t) = Lookup(c, key, t)
    /\ \A tkey \in t..MaxNow : \A t2 \in tkey..Min(tkey + MaxSkew, MaxNow) :
          is_allowed(lim, identifier, CacheExpire(c2, t2), tkey, t2)
            = is_allowed(lim, identifier, CacheExpire(c, t2), tkey, t2)

WindowReset ==
    \A a \in Running :
        (last[a].called /\ last[a].after_denial
            /\ last[a].tkey = last[a].denied_at + Den(LimiterOf(a)))
        => last[a].allowed

WindowResetReached ==
    \E a \in Running :
        /\ last[a].called /\ last[a].after_denial
        /\ last[a].tkey = last[a].denied_at + Den(LimiterOf(a))
        /\ last[a].allowed /\ ~last[a].fresh

\* C4 (token-bucket ceiling): the tokens stored for a key never exceed
\* rate + burst.
TokenCeiling ==
    \A lim \in limiters : \A identifier \in Identifiers :
        LET key == TokenBucket_get_key(lim, identifier)
        IN  (lim.alg = "token_bucket" /\ key \in DOMAIN cache)
            => cache[key].tokens <= (lim.rate + lim.burst) * Den(lim)

\* A bucket that idled up to its ceiling, above `rate`, and then gave one token.
TokenCeilingReached ==
    \E lim \in limiters : \E identifier \in Identifiers :
        LET key == TokenBucket_get_key(lim, identifier)
        IN  /\ lim.alg = "token_bucket" /\ lim.burst >= 1
            /\ key \in DOMAIN cache
            /\ cache[key].tokens = (lim.rate + lim.burst - 1) * Den(lim)

\* C5 (retry-after is sufficient): a call made retry_after seconds after the
\* denied call that reported it, with no call in between, is allowed.
RetryAfterSufficient ==
    \A a \in Running :
        (last[a].called /\ last[a].after_denial
            /\ last[a].tkey = last[a].denied_at
                                + last[a].denied_retry * TicksPerSecond)
        => last[a].allowed

RetryAfterSufficientReached ==
    \E a \in Running :
        /\ last[a].called /\ last[a].after_denial /\ ~last[a].fresh
        /\ last[a].tkey = last[a].denied_at
                            + last[a].denied_retry * TicksPerSecond
        /\ last[a].allowed

RetryAfterMonotoneOneClock ==
    \A a \in Running \ {"fixed_window"} :
        Denied(last[a])
        => /\ last[a].has_retry /\ last[a].retry_after >= 1
           /\ last[a].after_denial => last[a].retry_after <= last[a].denied_retry

\* C6, for the fixed-window calls whose two clock reads fall in one window.
RetryAfterMonotoneOneWindow ==
    (/\ "fixed_window" \in Running
     /\ Denied(last["fixed_window"])
     /\ Trunc(last["fixed_window"].tkey, Den(LimiterOf("fixed_window")))
           = Trunc(last["fixed_window"].t, Den(LimiterOf("fixed_window"))))
    => /\ last["fixed_window"].retry_after >= 1
       /\ last["fixed_window"].after_denial
          => last["fixed_window"].retry_after <= last["fixed_window"].denied_retry

\* C7 (sliding-window precision): once `rate` calls were allowed at one
\* instant t0, the sliding window denies every call before t0 + interval.
SlidingPrecision ==
    ("sliding_window" \in Running
        /\ last["sliding_window"].called
        /\ last["sliding_window"].full0 >= 0
        /\ last["sliding_window"].t
              < last["sliding_window"].full0 + Den(LimiterOf("sliding_window")))
    => Denied(last["sliding_window"])

\* The denied call is in the fixed window after the one of the burst.
SlidingPrecisionReached ==
    /\ "sliding_window" \in Running
    /\ last["sliding_window"].full0 >= 0
    /\ last["sliding_window"].t
          < last["sliding_window"].full0 + Den(LimiterOf("sliding_window"))
    /\ Trunc(last["sliding_window"].t, Den(LimiterOf("sliding_window")))
          > Trunc(last["sliding_window"].full0, Den(LimiterOf("sliding_window")))
    /\ Denied(last["sliding_window"])

\* C7, second half: the same statement of the fixed window, which a call in
\* the window after the burst's refutes.
FixedWindowPrecision ==
    ("fixed_window" \in Running
        /\ last["fixed_window"].called
        /\ last["fixed_window"].full0 >= 0
        /\ last["fixed_window"].tkey = last["fixed_window"].t
        /\ last["fixed_window"].t
              < last["fixed_window"].full0 + Den(LimiterOf("fixed_window")))
    => Denied(last["fixed_window"])

\* C8 (concrete scenario): with TokenBucket(rate=5, interval=60), the first
\* five calls within a second of a fresh identifier's first are allowed with
\* remaining 4, 3, 2, 1, 0, and the sixth is denied with
\* 1 <= retry_after <= 60.
ConcreteScenario ==
    \A a \in Running :
        (last[a].called /\ streak[a].n > 0)
        => /\ streak[a].n <= 5
              => last[a].allowed /\ last[a].remaining = 5 - streak[a].n
           /\ streak[a].n = 6
              => /\ Denied(last[a])
                 /\ last[a].retry_after >= 1 /\ last[a].retry_after <= 60

ConcreteScenarioReached ==
    \E a \in Running :
        /\ streak[a].n = 6 /\ ~streak[a].instant
        /\ Denied(last[a]) /\ last[a].retry_after >= 1

RateChecked == served.checked /\ ~served.raised

WellShapedDenial ==
    /\ served.response.status = 429
    /\ served.response.headers.retry_after = ToString(served.retry_after)
    /\ served.response.code = "RATE_5001"
    /\ served.response.body_retry_after = served.retry_after

\* C9 (denial response shape): a request that a wrapper denies gets status
\* 429, a Retry-After header equal to the decision's retry_after, and a body
\* with error.code RATE_5001 and error.retry_after of the same value.
DenialShape == (RateChecked /\ ~served.allowed) => WellShapedDenial

\* C9 of the rate_limit decorator alone.
DenialShapeDecorated ==
    (RateChecked /\ ~served.allowed /\ served.by = "decorator")
    => WellShapedDenial

HasQuotaHeaders ==
    /\ served.response.headers.limit # NoHeader
    /\ served.response.headers.remaining # NoHeader
    /\ served.response.headers.reset # NoHeader
    /\ ~served.allowed => served.response.headers.remaining = "0"

\* C10 (quota headers on every response): the response to a request that a
\* wrapper rate-checked, allowed or denied, carries X-RateLimit-Limit,
\* X-RateLimit-Remaining and X-RateLimit-Reset, with Remaining 0 on denial.
QuotaHeaders == RateChecked => HasQuotaHeaders

\* C10 of every response but the middleware's denial.
QuotaHeadersButMiddlewareDenial ==
    (RateChecked /\ (served.allowed \/ served.by = "decorator"))
    => HasQuotaHeaders

\* C11 (short-circuit on denial): a wrapper calls the downstream handler
\* exactly once for a request whose check is allowed and never for one whose
\* check is denied, and it consults the limiter before the handler runs.
ShortCircuit ==
    RateChecked
    => /\ served.allowed => served.calls = <<"is_allowed", "handler">>
       /\ ~served.allowed => served.calls = <<"is_allowed">>
       /\ served.handler_calls = (IF served.allowed THEN 1 ELSE 0)

\* The middleware denies the request that finds the client's bucket empty.
ShortCircuitReached ==
    /\ RateChecked /\ ~served.allowed /\ served.by = "middleware"
    /\ served.calls = <<"is_allowed">>

\* C12 (unknown-policy fallback): a decorator or throttle that was given a
\* policy name that is not a key of RATE_LIMITS checks the request against
\* the `default` policy (rate 1000, interval 3600): no error is raised and
\* the decision reports limit = 1000.
UnknownPolicyFallback ==
    /\ \A w \in endpoints :
          w.limit_name \notin DOMAIN RATE_LIMITS
          => LimiterAt(w).rate = 1000 /\ LimiterAt(w).interval = 3600
    /\ \A u \in seen :
          u.limit_name \notin DOMAIN RATE_LIMITS
          => served.checked /\ ~served.raised /\ served.limit = 1000

\* The endpoint is still throttled: its 1001st request is denied.
UnknownPolicyFallbackReached ==
    /\ \E u \in seen : u.limit_name \notin DOMAIN RATE_LIMITS /\ u.kind = "throttle"
    /\ RateChecked /\ ~served.allowed
    /\ served.limit = 1000 /\ served.response.status = 429

\* C13 (key namespacing): two rate checks made through the wrappers use the
\* same cache key only if they have the same algorithm, the same policy name
\* and the same scope identifier.
KeyNamespacing ==
    \A x \in seen : \A y \in seen :
        x.key = y.key
        => /\ x.algorithm = y.algorithm
           /\ x.limit_name = y.limit_name
           /\ x.identifier = y.identifier

\* C13, in particular: no check finds under its key what a check of another
\* algorithm stored there.
NoForeignState == served.checked => ~served.raised

\* C13 of the checks made through one kind of wrapper with one algorithm.
KeyNamespacingWithinAlgorithm ==
    \A x \in seen : \A y \in seen :
        (x.key = y.key /\ x.kind = y.kind /\ x.algorithm = y.algorithm)
        => /\ x.limit_name = y.limit_name
           /\ x.identifier = y.identifier

AllowListed(path) == \E p \in skip_paths : StartsWith(path, p)

\* The keys of the middleware's bucket are those of no other wrapper's check.
GlobalBucketPrivate ==
    \A x \in seen : \A y \in seen :
        (x.kind = "middleware" /\ y.kind # "middleware") => x.key # y.key

\* What a request through the middleware does, by its path.
AllowListStep(w, path) ==
    w.kind = "middleware"
    => IF AllowListed(path)
       THEN /\ cache' = cache /\ seen' = seen
            /\ served'.calls = <<"handler">>
       ELSE /\ served'.checked
            /\ ~served'.raised => served'.limit = GlobalLimiter.rate

\* C14 (global wrapper allow-list and independence): the middleware hands a
\* request whose path starts with /admin/, /static/, /media/ or /health/ to
\* the handler without reading or writing the cache; for any other request
\* it checks one token bucket (rate 1000, interval 3600, burst 100), whose
\* state no rate_limit policy reads or writes, whatever its name.
GlobalIndependence ==
    [][\A w \in endpoints, cl \in visitors, path \in Paths, skew \in 0..MaxSkew :
          Serve(w, cl, path, skew)
          => AllowListStep(w, path) /\ GlobalBucketPrivate']_vars

\* C14, the allow-list alone.
GlobalAllowList ==
    [][\A w \in endpoints, cl \in visitors, path \in Paths, skew \in 0..MaxSkew :
          Serve(w, cl, path, skew) => AllowListStep(w, path)]_vars

\* C14, the independence from the policies that are not named `global`.
GlobalBucketPrivateButGlobal ==
    \A x \in seen : \A y \in seen :
        (x.kind = "middleware" /\ y.kind # "middleware"
            /\ y.limit_name # "global")
        => x.key # y.key

\* C15 (user-scope fallback): under scope 'user' the identifier is built
\* from the user's id when the request is authenticated and is `ip:<client
\* ip>` otherwise; an anonymous request is not denied for being anonymous
\* (the first request of a run is allowed), and two different authenticated
\* users never get the same identifier, even from one address.
UserScopeFallback ==
    /\ \A x \in seen :
          x.scope = "user"
          => /\ x.user # 0 => x.identifier = <<"user", ":", ToString(x.user)>>
             /\ x.user = 0 => x.identifier = <<"ip", ":", x.ip>>
    /\ \A x \in seen : \A y \in seen :
          (x.scope = "user" /\ y.scope = "user"
              /\ x.user # 0 /\ y.user # 0 /\ x.user # y.user)
          => x.identifier # y.identifier
    /\ (\E x \in seen : x.scope = "user" /\ x.user = 0)
          /\ budget = MaxRequests - 1
       => RateChecked /\ served.allowed

\* Two users behind one address were checked, and so was an anonymous client.
UserScopeFallbackReached ==
    \E x \in seen : \E y \in seen :
        /\ x.scope = "user" /\ y.scope = "user"
        /\ x.user # 0 /\ y.user # 0 /\ x.user # y.user /\ x.ip = y.ip
        /\ x.limit_name = y.limit_name
        /\ x.key # y.key

UserScopeAnonymousReached ==
    \E x \in seen :
        /\ x.scope = "user" /\ x.user = 0
        /\ budget = MaxRequests - 1 /\ served.allowed

\* The part of an identifier that names the principal: nothing if anonymous.
PrincipalPart(user) ==
    IF user # 0 THEN <<"user", ":", ToString(user), ":">> ELSE << >>

\* C16 (dual-keyed scope): under scope 'ip_user' the identifier is the
\* concatenation of the principal and the client IP, so two requests get the
\* same identifier only if they agree on both the user and the IP.
DualKeyedScope ==
    /\ \A x \in seen :
          x.scope = "ip_user"
          => x.identifier = PrincipalPart(x.user) \o <<"ip", ":", x.ip>>
    /\ \A x \in seen : \A y \in seen :
          (x.scope = "ip_user" /\ y.scope = "ip_user"
              /\ x.identifier = y.identifier)
          => x.user = y.user /\ x.ip = y.ip

\* One user was checked from two addresses, under two identifiers.
DualKeyedScopeReached ==
    \E x \in seen : \E y \in seen :
        /\ x.scope = "ip_user" /\ y.scope = "ip_user"
        /\ x.user # 0 /\ x.user = y.user /\ x.ip # y.ip
        /\ x.identifier # y.identifier

\* What calls made one after another can admit by the time t at most: the
\* token bucket its `rate` tokens and what has refilled since, the windows
\* `rate` in each interval.
SequentialBound(lim, t) ==
    IF lim.alg = "token_bucket"
    THEN (lim.rate * Den(lim) + t * lim.rate) \div Den(lim)
    ELSE lim.rate * (t \div Den(lim) + 1)

OverAdmitted(a) ==
    a \in Running /\ raced[a].admitted > SequentialBound(LimiterOf(a), now)

\* C17 (known race): TokenBucket and SlidingWindowCounter admit more calls
\* than calls made one after another could only when calls for the
\* identifier overlapped between their cache.get and cache.set; and with
\* overlapping calls they do (the witness).
KnownRace ==
    \A a \in {"token_bucket", "sliding_window"} :
        OverAdmitted(a) => raced[a].overlapped

\* Both the token bucket and the sliding window have admitted too many.
KnownRaceReached ==
    /\ OverAdmitted("token_bucket") /\ raced["token_bucket"].overlapped
    /\ OverAdmitted("sliding_window") /\ raced["sliding_window"].overlapped

\* The allowed fixed-window calls that began in the span of one interval
\* that ends now.
AllowedInSpan ==
    LET lim == LimiterOf("fixed_window")
        Within1(call) == call.tkey >= now - Den(lim)
    IN  SelectSeq(admits, Within1)

\* C18 (fixed-window boundary burst): of the calls FixedWindowCounter(rate =
\* N, interval = T) gets one after another for one identifier, no more than
\* 2*N are allowed within any span of length at most T; and 2*N can be,
\* within a shorter span (the witness).
BoundaryBurst ==
    "fixed_window" \in Running
    => Len(AllowedInSpan) <= 2 * LimiterOf("fixed_window").rate

\* N calls at the end of one window and N at the start of the next.
BoundaryBurstReached ==
    /\ "fixed_window" \in Running
    /\ LimiterOf("fixed_window").rate = MaxRate
    /\ LimiterOf("fixed_window").interval = MaxInterval
    /\ Len(AllowedInSpan) = 2 * MaxRate
    /\ now - AllowedInSpan[1].tkey < Den(LimiterOf("fixed_window"))
    /\ \A n \in 1..Len(AllowedInSpan) : AllowedInSpan[n].tkey = AllowedInSpan[n].t

\* C18 of the runs whose allowed calls made both clock reads in one window.
BoundaryBurstOneWindow ==
    ("fixed_window" \in Running
        /\ \A n \in 1..Len(admits) :
              Trunc(admits[n].tkey, Den(LimiterOf("fixed_window")))
                 = Trunc(admits[n].t, Den(LimiterOf("fixed_window"))))
    => Len(AllowedInSpan) <= 2 * LimiterOf("fixed_window").rate

\* C19 (fixed-window scoping): in every FixedWindowCounter.is_allowed call
\* the window whose count is read and incremented is the window
\* floor(now / interval) of the decision: the reset it reports is the end of
\* the window its key names.
FixedWindowScoping ==
    ("fixed_window" \in Running
        /\ last["fixed_window"].called /\ ~last["fixed_window"].raised)
    => last["fixed_window"].reset
          = (Trunc(last["fixed_window"].tkey, Den(LimiterOf("fixed_window"))) + 1)
               * LimiterOf("fixed_window").interval

\* C19 of the calls during which the clock does not move.
FixedWindowScopingOneClock ==
    ("fixed_window" \in Running
        /\ last["fixed_window"].called /\ ~last["fixed_window"].raised
        /\ last["fixed_window"].tkey = last["fixed_window"].t)
    => last["fixed_window"].reset
          = (Trunc(last["fixed_window"].tkey, Den(LimiterOf("fixed_window"))) + 1)
               * LimiterOf("fixed_window").interval

\* The list stored for the watched identifier by the sliding window.
StoredRequests ==
    LET key == SlidingWindowCounter_get_key(LimiterOf("sliding_window"), watched)
    IN  IF CacheHas(cache, key, now) THEN cache[key].requests ELSE NoRequests

\* C20 (sliding-window pruning): after every SlidingWindowCounter.is_allowed
\* call at time `now`, allowed or denied, the list stored for the identifier
\* has no entry t with t <= now - interval.
SlidingPruned ==
    ("sliding_window" \in Running
        /\ last["sliding_window"].called /\ last["sliding_window"].t = now)
    => \A n \in 1..Len(StoredRequests) :
          StoredRequests[n] > now - Den(LimiterOf("sliding_window"))

\* An allowed call found a stored list, all of it older than the window, and
\* left only its own request.
SlidingPrunedReached ==
    /\ "sliding_window" \in Running
    /\ LimiterOf("sliding_window").rate = MaxRate
    /\ last["sliding_window"].called /\ last["sliding_window"].t = now
    /\ last["sliding_window"].allowed /\ ~last["sliding_window"].fresh
    /\ StoredRequests = <<now>>

\* A denied call, which stores nothing, after its list was stored earlier.
SlidingPrunedDeniedReached ==
    /\ "sliding_window" \in Running
    /\ Denied(last["sliding_window"]) /\ last["sliding_window"].t = now
    /\ now >= Den(LimiterOf("sliding_window"))
    /\ Len(StoredRequests) = LimiterOf("sliding_window").rate
    /\ StoredRequests[1] < now

\* The entry stored for the watched identifier under the key of the latest
\* call of algorithm a, if one is stored.
StoredFor(a) ==
    Lookup(cache, get_key(LimiterOf(a), watched, last[a].tkey), now)

\* The latest call of algorithm a has just returned.
JustCalled(a) == last[a].called /\ ~last[a].raised /\ last[a].t = now

\* The state stored for the identifier was written by the call made now:
\* its timeout, of two intervals (one for the fixed window), has just begun.
Renewed(a) ==
    \E e \in StoredFor(a) :
        e.expires = now + (IF a = "fixed_window" THEN 1 ELSE 2) * Den(LimiterOf(a))

\* C21 as stated (state refresh on every check): after every is_allowed
\* call, allowed or denied, of any of the three algorithms the identifier's
\* state is stored with a timeout that runs from that call.
StateRefresh == \A a \in Running : JustCalled(a) => Renewed(a)

\* C21, amended: TokenBucket.is_allowed writes the identifier's state back,
\* with a timeout of twice the interval, on every call, allowed or denied;
\* SlidingWindowCounter and FixedWindowCounter write it, and renew its
\* timeout, on an allowed call only, and a denied call of theirs changes
\* nothing in the cache.
StateRefreshOnWrite ==
    [][\A a \in Algorithms, identifier \in Identifiers, skew \in 0..MaxSkew :
          (Check(a, identifier, skew) /\ identifier = watched /\ ~last'[a].raised)
          => IF a = "token_bucket" \/ last'[a].allowed
             THEN Renewed(a)'
             ELSE cache' = CacheExpire(cache, now')]_vars

\* A denied token-bucket call renewed a bucket that an earlier call stored.
StateRefreshOnWriteReached ==
    /\ "token_bucket" \in Running
    /\ JustCalled("token_bucket") /\ Denied(last["token_bucket"])
    /\ last["token_bucket"].denied_at < now /\ last["token_bucket"].after_denial
    /\ Renewed("token_bucket")

\* A denied sliding-window call left the timeout of the stored list running.
StateRefreshSkippedReached ==
    /\ "sliding_window" \in Running
    /\ JustCalled("sliding_window") /\ Denied(last["sliding_window"])
    /\ StoredFor("sliding_window") # {}
    /\ ~Renewed("sliding_window")

\* The least integer that is no less than n/d (n >= 0, d > 0).
Ceiling(n, d) == (n + d - 1) \div d

\* The tokens a token-bucket call at time t finds after its refill, as a
\* numerator over Den(lim), given what cache.get returns.
Refilled(lim, found, t) ==
    IF found = {} THEN lim.rate * Den(lim)
    ELSE LET e == CHOOSE x \in found : TRUE
         IN  Min((lim.rate + lim.burst) * Den(lim),
                 e.tokens + (t - e.last_update) * lim.rate)

\* What a denied token-bucket step stores and returns, the quotient
\* (1 - tokens) / (rate/interval) being rounded up or truncated.
TokenDenialStep(rounded_up) ==
    \A identifier \in Identifiers :
        (Check("token_bucket", identifier, 0) /\ identifier = watched
            /\ Denied(last'["token_bucket"]))
        => LET lim == LimiterOf("token_bucket")
               key == TokenBucket_get_key(lim, identifier)
               tokens == Refilled(lim, Lookup(cache, key, now'), now')
           IN  /\ tokens < Den(lim)
               /\ Lookup(cache', key, now')
                     = {TokenEntry(tokens, now', now' + 2 * Den(lim))}
               /\ last'["token_bucket"].remaining = 0
               /\ last'["token_bucket"].retry_after
                     = (IF rounded_up
                        THEN Ceiling(Den(lim) - tokens, TicksPerSecond * lim.rate)
                        ELSE Trunc(Den(lim) - tokens, TicksPerSecond * lim.rate))
                       + 1

\* C22 as stated (token-bucket denial arithmetic): a denied
\* TokenBucket.is_allowed call persists the refilled, undecremented tokens
\* with last_update = now and returns remaining = 0 and
\* retry_after = ceil((1 - tokens) / (rate/interval)) + 1.
TokenDenialCeiling == [][TokenDenialStep(TRUE)]_vars

\* C22, amended: a denied TokenBucket.is_allowed call persists the refilled,
\* undecremented tokens with last_update = now and returns remaining = 0 and
\* retry_after = int((1 - tokens) / (rate/interval)) + 1, the quotient being
\* truncated, not rounded up.
TokenDenialArithmetic == [][TokenDenialStep(FALSE)]_vars

\* A denied call whose quotient is no whole number of seconds: the bucket
\* holds a fraction of a token and the rounding matters.
TokenDenialArithmeticReached ==
    /\ "token_bucket" \in Running
    /\ JustCalled("token_bucket") /\ Denied(last["token_bucket"])
    /\ \E e \in StoredFor("token_bucket") :
          /\ e.tokens > 0 /\ e.last_update = now
          /\ (Den(LimiterOf("token_bucket")) - e.tokens)
                % (TicksPerSecond * LimiterOf("token_bucket").rate) # 0
          /\ last["token_bucket"].retry_after
                = Trunc(Den(LimiterOf("token_bucket")) - e.tokens,
                        TicksPerSecond * LimiterOf("token_bucket").rate) + 1

\* The tokens the latest token-bucket call saw after its refill, before its
\* own decrement: what it stored, and the token it took if it was allowed.
TokensSeen ==
    LET e == CHOOSE x \in StoredFor("token_bucket") : TRUE
    IN  e.tokens + (IF last["token_bucket"].allowed
                    THEN Den(LimiterOf("token_bucket")) ELSE 0)

\* C23 (token refill): a TokenBucket(rate=R, interval=I, burst=B) call that
\* finds stored state, made k*I/R seconds after the previous call, sees
\* min(R + B, tokens_before + k) tokens before its own decrement; and it
\* sees min(R + B, tokens_drawn + K) tokens, K*I/R seconds having passed
\* since the last allowed call left tokens_drawn, however many denied calls
\* were made in between.
TokenRefill ==
    [][\A identifier \in Identifiers :
          (Check("token_bucket", identifier, 0) /\ identifier = watched
              /\ ~last'["token_bucket"].fresh /\ ~last'["token_bucket"].raised)
          => LET lim == LimiterOf("token_bucket")
                 key == TokenBucket_get_key(lim, identifier)
                 ceiling == (lim.rate + lim.burst) * Den(lim)
             IN  /\ TokensSeen'
                       = Min(ceiling, cache[key].tokens
                                        + (now' - cache[key].last_update) * lim.rate)
                 /\ drawn.t >= 0
                 /\ TokensSeen'
                       = Min(ceiling, drawn.tokens + (now' - drawn.t) * lim.rate)]_vars

\* An allowed call after a denied one, which came a fraction of a second
\* after the last allowed call: the token it takes refilled over both waits.
TokenRefillReached ==
    /\ "token_bucket" \in Running
    /\ JustCalled("token_bucket") /\ last["token_bucket"].allowed
    /\ ~last["token_bucket"].fresh /\ last["token_bucket"].after_denial
    /\ last["token_bucket"].denied_at < now
    /\ last["token_bucket"].denied_at % TicksPerSecond # 0
    /\ TokensSeen < (LimiterOf("token_bucket").rate + LimiterOf("token_bucket").burst)
                      * Den(LimiterOf("token_bucket"))

\* A call that found the bucket refilled to its ceiling, above `rate`.
TokenRefillCappedReached ==
    /\ "token_bucket" \in Running
    /\ LimiterOf("token_bucket").burst > 0
    /\ JustCalled("token_bucket") /\ ~last["token_bucket"].fresh
    /\ TokensSeen = (LimiterOf("token_bucket").rate + LimiterOf("token_bucket").burst)
                      * Den(LimiterOf("token_bucket"))

\* The list a call at time t works on: the stored one (none: the empty list)
\* without the entries that are an interval old or older.
Pruned(lim, found, t) ==
    LET stored == IF found = {} THEN NoRequests
                  ELSE (CHOOSE x \in found : TRUE).requests
        Young(r) == r > t - Den(lim)
    IN  SelectSeq(stored, Young)

\* What a sliding-window step decides, stores and returns, L being the
\* pruned list; exact: reset and retry_after as C24 states them, with
\* min(L) + interval not truncated and the wait rounded up.
SlidingDecisionStep(exact) ==
    \A identifier \in Identifiers :
        (Check("sliding_window", identifier, 0) /\ identifier = watched
            /\ ~last'["sliding_window"].raised)
        => LET lim == LimiterOf("sliding_window")
               key == SlidingWindowCounter_get_key(lim, identifier)
               L == Pruned(lim, Lookup(cache, key, now'), now')
               call == last'["sliding_window"]
           IN  IF Len(L) < lim.rate
               THEN /\ call.allowed
                    /\ \E e \in Lookup(cache', key, now') :
                          e.requests = Append(L, now')
                    /\ call.remaining = lim.rate - (Len(L) + 1)
               ELSE /\ Denied(call)
                    /\ call.remaining = 0
                    /\ IF exact
                       THEN /\ call.reset * TicksPerSecond = Oldest(L) + Den(lim)
                            /\ call.retry_after
                                  = Ceiling(Oldest(L) + Den(lim) - now',
                                            TicksPerSecond) + 1
                       ELSE /\ call.reset = Trunc(Oldest(L) + Den(lim), TicksPerSecond)
                            /\ call.retry_after
                                  = Trunc(Oldest(L) + Den(lim) - now',
                                          TicksPerSecond) + 1

\* C24 as stated (sliding-window decision arithmetic): with L the pruned
\* list, the call is allowed iff len(L) < rate, and then L with `now`
\* appended is persisted and remaining = rate - (len(L) + 1); otherwise
\* remaining = 0, reset = min(L) + interval and
\* retry_after = ceil(min(L) + interval - now) + 1.
SlidingDecisionCeiling == [][SlidingDecisionStep(TRUE)]_vars

\* C24, amended: the same, but on denial reset = int(min(L) + interval) and
\* retry_after = int(min(L) + interval - now) + 1, both truncated.
SlidingDecision == [][SlidingDecisionStep(FALSE)]_vars

\* A denied call a fraction of a second before the oldest request leaves
\* the window: the rounding matters.
SlidingDecisionReached ==
    /\ "sliding_window" \in Running
    /\ JustCalled("sliding_window") /\ Denied(last["sliding_window"])
    /\ Len(StoredRequests) = LimiterOf("sliding_window").rate
    /\ (Oldest(StoredRequests) + Den(LimiterOf("sliding_window")) - now)
          % TicksPerSecond # 0
    /\ last["sliding_window"].retry_after
          = Trunc(Oldest(StoredRequests) + Den(LimiterOf("sliding_window")) - now,
                  TicksPerSecond) + 1

\* An allowed call that pruned the stored list and appended its own time.
SlidingDecisionAllowedReached ==
    /\ "sliding_window" \in Running
    /\ LimiterOf("sliding_window").rate = MaxRate
    /\ JustCalled("sliding_window") /\ last["sliding_window"].allowed
    /\ Len(StoredRequests) = MaxRate /\ StoredRequests[1] < now
    /\ last["sliding_window"].remaining = 0

\* The list stored for the workers' identifier by the sliding window.
RacerRequests ==
    LET key == SlidingWindowCounter_get_key(LimiterOf("sliding_window"), Racer)
    IN  IF key \in DOMAIN cache THEN cache[key].requests ELSE NoRequests

\* The stream of calls of the run has been made, and every call has returned.
StreamDone == budget = 0 /\ \A p \in Workers : flight[p].stage = "idle"

\* C25 as stated (sliding-window list growth): under a sustained stream of
\* calls for one identifier, made one after another or concurrently, the
\* list SlidingWindowCounter has stored comes to hold more than `rate`
\* entries.
SlidingListGrowth ==
    ("sliding_window" \in Running /\ StreamDone)
    => Len(RacerRequests) > LimiterOf("sliding_window").rate

\* C25, amended: the list SlidingWindowCounter stores for an identifier
\* never holds more than `rate` entries, whether the calls for it are made
\* one after another or concurrently.
SlidingListCapped ==
    "sliding_window" \in Running
    => Len(RacerRequests) <= LimiterOf("sliding_window").rate

\* Overlapping calls admitted more than `rate` requests, and the list that
\* is stored holds `rate` entries.
SlidingListCappedReached ==
    /\ "sliding_window" \in Running /\ StreamDone
    /\ LimiterOf("sliding_window").rate = MaxRate
    /\ raced["sliding_window"].overlapped
    /\ raced["sliding_window"].admitted > MaxRate
    /\ Len(RacerRequests) = MaxRate

\* C26 (block duration in core.throttling.rate_limit): with block_duration
\* set, a request that comes in before block_duration seconds have passed
\* since a request of its identifier was rejected at the limit is rejected
\* with 429 and the wrapped view is not called, whether or not the counter
\* has expired meanwhile; and requests made one after another call the view
\* at most `limit` times in one counting period.
BlockDuration ==
    /\ (outcome.done /\ outcome.blocked)
          => outcome.status = 429 /\ ~outcome.view_called
    /\ ~tally.overlapped => tally.views <= wrapper.limit

\* C26, without the response: a request that comes in during a block does
\* not reach the view, and requests made one after another call the view at
\* most `limit` times in one counting period.
BlockedNotServed ==
    /\ (outcome.done /\ outcome.blocked) => ~outcome.view_called
    /\ ~tally.overlapped => tally.views <= wrapper.limit

\* A request came in during a block after the counter had expired, and did
\* not reach the view.
BlockedNotServedReached ==
    /\ wrapper.kind = "throttling"
    /\ outcome.done /\ outcome.blocked /\ ~outcome.view_called
    /\ ~tally.overlapped
    /\ ClientCacheKey \notin DOMAIN cache
    /\ now < tally.blocked_until

\* Requests made one after another reached the view `limit` times in one
\* counting period, and the next one was rejected with 429.
LimitReachedReached ==
    /\ wrapper.kind = "throttling" /\ wrapper.limit = MaxRate
    /\ ~tally.overlapped /\ tally.views = MaxRate
    /\ outcome.done /\ outcome.status = 429 /\ ~outcome.blocked

\* The tokens stored in cache c under the watched identifier's bucket key.
StoredTokens(c) ==
    LET key == TokenBucket_get_key(LimiterOf("token_bucket"), watched)
    IN  IF key \in DOMAIN c THEN c[key].tokens ELSE 0

\* Whatever call would be allowed with cache c is allowed with cache c2:
\* the step from c to c2 at time t has postponed nothing.
NothingPostponed(lim, identifier, c, c2, t) ==
    \A tkey \in t..MaxNow : \A t2 \in tkey..Min(tkey + MaxSkew, MaxNow) :
        is_allowed(lim, identifier, CacheExpire(c, t2), tkey, t2).allowed
        => is_allowed(lim, identifier, CacheExpire(c2, t2), tkey, t2).allowed

\* What a denied call leaves behind.
DeniedStep ==
    \A a \in Algorithms, identifier \in Identifiers, skew \in 0..MaxSkew :
        (Check(a, identifier, skew) /\ identifier = watched /\ Denied(last'[a]))
        => /\ a = "token_bucket" => StoredTokens(cache') >= StoredTokens(cache)
           /\ a # "token_bucket" => cache' = CacheExpire(cache, now')
           /\ NothingPostponed(LimiterOf(a), identifier, cache, cache', now')

\* C27 (denied checks consume no quota, tokens stay non-negative): the
\* tokens TokenBucket has stored are never negative and a denied call never
\* lowers them; a denied call of SlidingWindowCounter or FixedWindowCounter
\* leaves the stored list or count as it was; and after a denied call the
\* identifier is allowed at every later time at which it would have been
\* allowed without that call.
DeniedConsumesNothing ==
    /\ [](\A key \in DOMAIN cache : cache[key].tokens >= 0)
    /\ [][DeniedStep]_vars

\* A denied token-bucket call stored the fraction of a token that had
\* refilled since another denied call.
DeniedConsumesNothingReached ==
    /\ "token_bucket" \in Running
    /\ JustCalled("token_bucket") /\ Denied(last["token_bucket"])
    /\ last["token_bucket"].after_denial /\ last["token_bucket"].denied_at < now
    /\ StoredTokens(cache) > 0
    /\ StoredTokens(cache) < Den(LimiterOf("token_bucket"))

\* A burst of denied sliding-window calls, the stored list as it was.
DeniedBurstReached ==
    /\ "sliding_window" \in Running
    /\ JustCalled("sliding_window") /\ Denied(last["sliding_window"])
    /\ last["sliding_window"].after_denial
    /\ last["sliding_window"].denied_at = now
    /\ Len(StoredRequests) = LimiterOf("sliding_window").rate

\* C28 (decision bounds): every decision any of the three algorithms
\* returns has limit = rate and 0 <= remaining <= limit, also that of a
\* token bucket that has idled until burst tokens accumulated.
DecisionBounds ==
    \A a \in Running :
        (last[a].called /\ ~last[a].raised)
        => /\ last[a].limit = LimiterOf(a).rate
           /\ 0 <= last[a].remaining
           /\ last[a].remaining <= last[a].limit

\* C28 with the burst counted in: 0 <= remaining <= limit - 1 + burst.
DecisionBoundsWithBurst ==
    \A a \in Running :
        (last[a].called /\ ~last[a].raised)
        => /\ last[a].limit = LimiterOf(a).rate
           /\ 0 <= last[a].remaining
           /\ last[a].remaining <= last[a].limit - 1 + LimiterOf(a).burst

\* A bucket that idled up to rate + burst tokens reports all but one of them.
DecisionBoundsWithBurstReached ==
    /\ "token_bucket" \in Running
    /\ LimiterOf("token_bucket").burst = MaxBurst
    /\ last["token_bucket"].called /\ last["token_bucket"].allowed
    /\ ~last["token_bucket"].fresh
    /\ last["token_bucket"].remaining
          = LimiterOf("token_bucket").rate - 1 + MaxBurst

\* The count stored for the workers' identifier in the window of time t.
RacerCount(t) ==
    LET key == FixedWindowCounter_get_key(LimiterOf("fixed_window"), Racer, t)
    IN  IF CacheHas(cache, key, now) THEN cache[key].count ELSE 0

\* All the calls made so far fell in the first window.
InFirstWindow ==
    "fixed_window" \in Running /\ now < Den(LimiterOf("fixed_window"))

\* C29 (fixed window under concurrency): however the concurrent is_allowed
\* calls of FixedWindowCounter(rate=N) for one identifier interleave within
\* one window, at most N of them are allowed in that window, and once they
\* have returned the stored count is the number of allowed calls.
FixedWindowConcurrency ==
    InFirstWindow
    => /\ raced["fixed_window"].admitted <= LimiterOf("fixed_window").rate
       /\ (\A p \in Workers : flight[p].stage = "idle")
          => RacerCount(0) = raced["fixed_window"].admitted

\* C29 of the calls that do not overlap.
FixedWindowOneByOne ==
    (InFirstWindow /\ ~raced["fixed_window"].overlapped)
    => /\ raced["fixed_window"].admitted <= LimiterOf("fixed_window").rate
       /\ (\A p \in Workers : flight[p].stage = "idle")
          => RacerCount(0) = raced["fixed_window"].admitted

\* Calls made one after another filled the first window.
FixedWindowOneByOneReached ==
    /\ InFirstWindow /\ ~raced["fixed_window"].overlapped
    /\ LimiterOf("fixed_window").rate = MaxRate
    /\ budget < MaxCalls - MaxRate
    /\ \A p \in Workers : flight[p].stage = "idle"
    /\ RacerCount(0) = MaxRate /\ raced["fixed_window"].admitted = MaxRate

\* The request either was rejected with 429 or was counted and handed to
\* the view.
RejectedOrCounted ==
    \/ outcome.status = 429 /\ ~outcome.view_called
    \/ outcome.view_called /\ outcome.stored = outcome.was + 1

\* The stored counter runs out no later than `period` seconds after the
\* first request of its window.
CounterTimeoutKept ==
    CacheHas(cache, ClientCacheKey, now)
    => /\ tally.window_start >= 0
       /\ cache[ClientCacheKey].expires
             <= tally.window_start + wrapper.period * TicksPerSecond

\* C30 (counter expiry in core.throttling.rate_limit): however a request
\* interleaves with the expiry of its counter key and with other requests of
\* the same identifier, it is either rejected with 429 or counted and handed
\* to the view, it never fails because the key expired between the get and
\* the incr, and the counter key runs out no later than `period` seconds
\* after the first request of its window.
CounterExpiry ==
    wrapper.kind = "throttling"
    => /\ outcome.done => outcome.error # "ValueError"
       /\ (outcome.done /\ outcome.error # "AttributeError") => RejectedOrCounted
       /\ CounterTimeoutKept

\* C30 of the requests that neither overlap nor meet the expiry of the
\* counter key between their get and their incr.
CounterExpiryOneByOne ==
    (wrapper.kind = "throttling" /\ ~tally.overlapped)
    => /\ (outcome.done /\ outcome.error = "") => RejectedOrCounted
       /\ CounterTimeoutKept

\* A request was counted with cache.incr, the timeout of the key as it was.
CounterExpiryOneByOneReached ==
    /\ wrapper.kind = "throttling" /\ ~tally.overlapped
    /\ outcome.done /\ outcome.view_called /\ outcome.stored = 2
    /\ now > tally.window_start
    /\ cache[ClientCacheKey].expires
          = tally.window_start + wrapper.period * TicksPerSecond

\* C30, the failure alone, of requests that do not overlap: no request ends
\* in the ValueError of a cache.incr whose key has expired.
IncrNeverFails ==
    (wrapper.kind = "throttling" /\ ~tally.overlapped /\ outcome.done)
    => outcome.error # "ValueError"

====
